---- MODULE Spec2Model ----
(***************************************************************************)
(* Docker4Iran: dns_selector.py and mirror_selector.py.                    *)
(*                                                                         *)
(* The two scripts probe a configured list of endpoints (DNS resolvers,    *)
(* registry mirrors), aggregate per-endpoint statistics, rank them, and    *)
(* apply the operator's choice to /etc/resolv.conf or daemon.json.         *)
(*                                                                         *)
(* Elapsed times are whole clock ticks; a Python float is a rational       *)
(* <<numerator, denominator>> in lowest terms, float('inf') is <<1, 0>>.   *)
(***************************************************************************)
EXTENDS Integers, Sequences, FiniteSets, TLC

VARIABLES
    prog,             \* the script that runs: "dns" or "mirror"
    pc_main,          \* position of the main thread
    dns_servers,      \* DNSSelector.dns_servers, in dict order
    max_workers,      \* argument of test_all_dns_servers
    future_to_server, \* futures submitted so far (set of indexes into dns_servers)
    work_queue,       \* the executor's queue of work items not yet picked up
    fstate,           \* state of each future
    task,             \* locals of each running _test_dns_server call
    started,          \* how many times each work item was picked up by a worker
    collected,        \* futures as_completed has already yielded
    results,          \* the results list being built
    working_servers,  \* the ranked list of select_dns_interactive
    docker_working_servers, \* the results with docker_working, in arrival order
    registry_mirrors, \* InteractiveRegistrySelector.registry_mirrors
    reg,              \* locals of the running _test_single_registry call
    working_results,  \* the ranked list of display_results_and_choose
    failed_results,   \* the lines printed under "Failed Registry Mirrors"
    test_summary,     \* the lines printed under "Test Summary"
    probe,            \* one probe call on its own: function, underlying call, outcome
    apply,            \* locals of the running apply_dns_settings / _configure_docker_daemon
    etc_file,         \* /etc/resolv.conf, respectively /etc/docker/daemon.json
    etc_before,       \* the same file as it was when the apply operation started
    backup_file,      \* /etc/resolv.conf.backup
    tmp_file,         \* /tmp/resolv.conf.new
    main              \* the operator's dialogue and the end of main()

dnsVars == <<dns_servers, max_workers, future_to_server, work_queue, fstate, task,
             started, collected, working_servers, docker_working_servers>>
regVars == <<registry_mirrors, reg, working_results, failed_results, test_summary>>
ioVars == <<probe, apply, etc_file, etc_before, backup_file, tmp_file, main>>
vars == <<prog, pc_main, results, dnsVars, regVars, ioVars>>

----------------------------------------------------------------------------
(* Bounds of the model *)

MaxServers == 2
MaxCap == 1
MaxTime == 1
MaxMirrors == 3
MaxElapsed == 2
MaxClock == 2
MaxPrompts == 2

(* Program constants *)

DEFAULT_MAX_WORKERS == 5
EXIT_OK == 0
EXIT_FAILURE == 1
EXIT_SIGINT == 130
ROOT == 0
WORKING_THRESHOLD == 50
DOCKER_WORKING_THRESHOLD == 66
PERCENT == 100

ServerNames == <<"A", "B", "C", "D", "E", "F">>
test_domains == <<"google.com", "github.com", "docker.com", "ubuntu.com">>
docker_domains == <<"download.docker.com", "registry-1.docker.io", "auth.docker.io">>

Times == 1..MaxTime
Elapsed == 1..MaxElapsed
MirrorUrls == <<"https://m1", "https://m2", "https://m3", "https://m4", "https://m5">>
StatusCodes == {200, 401, 404, 403, 500}
WorkerCaps == (1..MaxCap) \cup {DEFAULT_MAX_WORKERS}

----------------------------------------------------------------------------
(* Floats as rationals *)

RECURSIVE Gcd(_, _)
Gcd(a, b) == IF b = 0 THEN a ELSE Gcd(b, a % b)

Rat(n, d) == IF d = 0 THEN <<1, 0>> ELSE LET g == Gcd(n, d) IN
             IF g = 0 THEN <<0, 1>> ELSE <<n \div g, d \div g>>
Inf == <<1, 0>>
IsFinite(x) == x[2] # 0
RatAdd(x, y) == IF x[2] = 0 \/ y[2] = 0 THEN Inf
                ELSE Rat(x[1] * y[2] + y[1] * x[2], x[2] * y[2])
RatMul(x, y) == IF x[2] = 0 \/ y[2] = 0 THEN Inf ELSE Rat(x[1] * y[1], x[2] * y[2])
RatDiv(x, n) == IF x[2] = 0 THEN Inf ELSE Rat(x[1], x[2] * n)
RatLess(x, y) == x[1] * y[2] < y[1] * x[2]
RatGeq(x, y) == ~RatLess(x, y)

RECURSIVE sum(_)
sum(xs) == IF xs = <<>> THEN Rat(0, 1) ELSE RatAdd(Head(xs), sum(Tail(xs)))

----------------------------------------------------------------------------
(* dns_selector.py: one probe *)

\* The classes that "except Exception" catches, among what the calls raise.
ExceptionClasses == {"TimeoutExpired", "SubprocessError", "OSError",
                     "Timeout", "ConnectionError", "SSLError"}

\* What a probe hands to its caller: a returned (success, elapsed) pair, or an
\* exception that leaves the function.
Returned(success, elapsed) == [raised |-> "", success |-> success, time |-> elapsed]
Raised(exc) == [raised |-> exc, success |-> FALSE, time |-> Inf]

\* What subprocess.run(['nslookup', domain, dns_server], timeout=...) can do,
\* with the two readings of time.time(), the wall clock, around it.
NslookupCalls(starts, ends) ==
    [kind : {"completed"}, returncode : {0, 1}, nxdomain : BOOLEAN,
     start_time : starts, end_time : ends]
    \cup [kind : {"TimeoutExpired", "SubprocessError", "OSError"}]

test_dns_resolution(call) ==
    IF call.kind = "completed"
    THEN LET response_time == Rat(call.end_time - call.start_time, 1) IN
         IF call.returncode = 0 /\ ~call.nxdomain
         THEN Returned(TRUE, response_time)
         ELSE Returned(FALSE, Inf)
    ELSE IF call.kind \in {"TimeoutExpired", "SubprocessError"}
    THEN Returned(FALSE, Inf)
    ELSE IF call.kind \in ExceptionClasses
    THEN Returned(FALSE, Inf)
    ELSE Raised(call.kind)

----------------------------------------------------------------------------
(* dns_selector.py: per-endpoint statistics *)

\* A differing battery: no guard on an empty list of successes, the average
\* taken over the attempted probes.
GeneralStatsOverAttempts(success_count, successful_tests) ==
    LET total_time == sum(successful_tests)
        success_rate == RatMul(Rat(success_count, Len(test_domains)), Rat(PERCENT, 1))
    IN  [success_count |-> success_count,
         total_time |-> total_time,
         avg_time |-> RatDiv(total_time, Len(test_domains)),
         success_rate |-> success_rate,
         working |-> RatGeq(success_rate, Rat(WORKING_THRESHOLD, 1))]

\* _test_dns_server, the general battery once all its probes have run.
GeneralStats(success_count, successful_tests) ==
    IF successful_tests # <<>>
    THEN LET total_time == sum(successful_tests)
             success_rate == RatMul(Rat(success_count, Len(test_domains)), Rat(PERCENT, 1))
         IN  [success_count |-> success_count,
              total_time |-> total_time,
              avg_time |-> RatDiv(total_time, Len(successful_tests)),
              success_rate |-> success_rate,
              working |-> RatGeq(success_rate, Rat(WORKING_THRESHOLD, 1))]
    ELSE [success_count |-> success_count,
          total_time |-> Rat(0, 1),
          avg_time |-> Inf,
          success_rate |-> Rat(0, 1),
          working |-> FALSE]

\* _test_docker_connectivity once all its probes have run.
DockerStats(docker_success_count, successful_docker_tests) ==
    IF successful_docker_tests # <<>>
    THEN LET docker_total_time == sum(successful_docker_tests)
             docker_success_rate ==
                 RatMul(Rat(docker_success_count, Len(docker_domains)), Rat(PERCENT, 1))
         IN  [docker_success_count |-> docker_success_count,
              docker_total_time |-> docker_total_time,
              docker_avg_time |-> RatDiv(docker_total_time, Len(successful_docker_tests)),
              docker_success_rate |-> docker_success_rate,
              docker_working |-> RatGeq(docker_success_rate, Rat(DOCKER_WORKING_THRESHOLD, 1))]
    ELSE [docker_success_count |-> docker_success_count,
          docker_total_time |-> Rat(0, 1),
          docker_avg_time |-> Inf,
          docker_success_rate |-> Rat(0, 1),
          docker_working |-> FALSE]

\* results.update(docker_results): one dict with both batteries.
Merge(name, g, d) ==
    [name |-> name,
     success_count |-> g.success_count, total_time |-> g.total_time,
     avg_time |-> g.avg_time, success_rate |-> g.success_rate, working |-> g.working,
     docker_success_count |-> d.docker_success_count,
     docker_total_time |-> d.docker_total_time,
     docker_avg_time |-> d.docker_avg_time,
     docker_success_rate |-> d.docker_success_rate,
     docker_working |-> d.docker_working]

----------------------------------------------------------------------------
(* dns_selector.py: ranking *)

\* A differing key: the general average compared before the Docker average.
DnsKeyGeneralFirst(x) ==
    <<IF x.docker_working THEN 0 ELSE 1, x.avg_time, x.docker_avg_time>>

\* The sort key of select_dns_interactive, compared as Python compares tuples.
DnsKey(x) == <<IF x.docker_working THEN 0 ELSE 1, x.docker_avg_time, x.avg_time>>

DnsKeyLess(x, y) ==
    LET kx == DnsKey(x)
        ky == DnsKey(y)
    IN  \/ kx[1] < ky[1]
        \/ kx[1] = ky[1] /\ RatLess(kx[2], ky[2])
        \/ kx[1] = ky[1] /\ ~RatLess(kx[2], ky[2]) /\ ~RatLess(ky[2], kx[2])
           /\ RatLess(kx[3], ky[3])

\* list.sort is stable: an element goes after the elements that are not greater.
RECURSIVE InsertDns(_, _)
InsertDns(sorted, x) ==
    IF sorted = <<>> THEN <<x>>
    ELSE IF DnsKeyLess(x, Head(sorted)) THEN <<x>> \o sorted
    ELSE <<Head(sorted)>> \o InsertDns(Tail(sorted), x)

RECURSIVE SortDns(_)
SortDns(xs) == IF xs = <<>> THEN <<>>
               ELSE InsertDns(SortDns(SubSeq(xs, 1, Len(xs) - 1)), xs[Len(xs)])

\* A differing filter: on docker_working instead of working.
FilterDockerWorking(xs) == SelectSeq(xs, LAMBDA r : r.docker_working)

FilterWorking(xs) == SelectSeq(xs, LAMBDA r : r.working)

\* docker_working_servers: the results with docker_working, neither filtered on
\* working nor sorted.
SelectDockerWorking(xs) == SelectSeq(xs, LAMBDA r : r.docker_working)

RankDns(xs) == SortDns(FilterWorking(xs))

----------------------------------------------------------------------------
(* dns_selector.py: test_all_dns_servers *)

NoTask == [pc |-> "none", success_count |-> 0, successful_tests |-> <<>>,
           docker_success_count |-> 0, successful_docker_tests |-> <<>>, n |-> 0]

Indexes == 1..Len(dns_servers)
Running == {i \in Indexes : fstate[i] = "RUNNING"}

DnsIdle ==
    /\ dns_servers = <<>>
    /\ max_workers = DEFAULT_MAX_WORKERS
    /\ future_to_server = {}
    /\ work_queue = <<>>
    /\ fstate = <<>>
    /\ task = <<>>
    /\ started = <<>>
    /\ collected = {}
    /\ working_servers = <<>>
    /\ docker_working_servers = <<>>

NoReg == [i |-> 0, conn_time |-> Inf]

NoFile == [kind |-> "absent"]

\* main() before any prompt: no line read, nothing selected, still running.
NoMain == [prompts |-> 0, reprompts |-> 0, choice |-> "<none>", selected |-> 0,
           confirmed |-> FALSE, outcome |-> "", exit_code |-> -1, raised |-> ""]

IoIdle ==
    /\ probe = [fn |-> ""]
    /\ apply = [fn |-> ""]
    /\ etc_file = NoFile
    /\ etc_before = NoFile
    /\ backup_file = NoFile
    /\ tmp_file = NoFile
    /\ main = NoMain

RegIdle ==
    /\ registry_mirrors = <<>>
    /\ reg = NoReg
    /\ working_results = <<>>
    /\ failed_results = <<>>
    /\ test_summary = <<>>

InitDns ==
    /\ prog = "dns"
    /\ pc_main = "submit"
    /\ \E n \in 0..MaxServers :
         dns_servers \in [1..n -> [name : {ServerNames[i] : i \in 1..n},
                                   has_primary : BOOLEAN]]
    /\ \A i \in Indexes : dns_servers[i].name = ServerNames[i]
    /\ max_workers \in WorkerCaps
    /\ future_to_server = {}
    /\ work_queue = <<>>
    /\ fstate = [i \in Indexes |-> "NONE"]
    /\ task = [i \in Indexes |-> NoTask]
    /\ started = [i \in Indexes |-> 0]
    /\ collected = {}
    /\ results = <<>>
    /\ working_servers = <<>>
    /\ docker_working_servers = <<>>
    /\ RegIdle
    /\ IoIdle

\* executor.submit(self._test_dns_server, name, info), in dict order.
Submit ==
    /\ prog = "dns" /\ pc_main = "submit"
    /\ \E i \in Indexes :
         /\ i \notin future_to_server
         /\ \A j \in 1..(i - 1) : j \in future_to_server
         /\ future_to_server' = future_to_server \cup {i}
         /\ work_queue' = Append(work_queue, i)
         /\ fstate' = [fstate EXCEPT ![i] = "PENDING"]
    /\ UNCHANGED <<prog, pc_main, dns_servers, max_workers, task, started, collected,
                   results, working_servers, docker_working_servers,
                   regVars, ioVars>>

\* All futures are submitted: the main thread enters as_completed.
AllSubmitted ==
    /\ prog = "dns" /\ pc_main = "submit"
    /\ future_to_server = Indexes
    /\ pc_main' = "collect"
    /\ UNCHANGED <<prog, dns_servers, max_workers, future_to_server, work_queue, fstate,
                   task, started, collected, results, working_servers, docker_working_servers,
                   regVars, ioVars>>

\* A differing executor: a work item is picked up whatever the number of
\* running workers.
StartTaskUnbounded(i) ==
    /\ prog = "dns"
    /\ work_queue # <<>> /\ Head(work_queue) = i
    /\ work_queue' = Tail(work_queue)
    /\ fstate' = [fstate EXCEPT ![i] = "RUNNING"]
    /\ task' = [task EXCEPT ![i] = [NoTask EXCEPT !.pc = "init"]]
    /\ started' = [started EXCEPT ![i] = @ + 1]
    /\ UNCHANGED <<prog, pc_main, dns_servers, max_workers, future_to_server, collected,
                   results, working_servers, docker_working_servers, regVars, ioVars>>

\* A worker thread of the pool takes the oldest work item; the pool has at most
\* max_workers threads and each runs one work item at a time.
StartTask(i) ==
    /\ prog = "dns"
    /\ work_queue # <<>> /\ Head(work_queue) = i
    /\ Cardinality(Running) < max_workers
    /\ work_queue' = Tail(work_queue)
    /\ fstate' = [fstate EXCEPT ![i] = "RUNNING"]
    /\ task' = [task EXCEPT ![i] = [NoTask EXCEPT !.pc = "init"]]
    /\ started' = [started EXCEPT ![i] = @ + 1]
    /\ UNCHANGED <<prog, pc_main, dns_servers, max_workers, future_to_server, collected,
                   results, working_servers, docker_working_servers,
                   regVars, ioVars>>

\* _test_dns_server up to its first probe: server_info['primary'] is read.
TaskInit(i) ==
    /\ prog = "dns"
    /\ fstate[i] = "RUNNING" /\ task[i].pc = "init"
    /\ dns_servers[i].has_primary
    /\ task' = [task EXCEPT ![i].pc = "general"]
    /\ UNCHANGED <<prog, pc_main, dns_servers, max_workers, future_to_server, work_queue,
                   fstate, started, collected, results, working_servers, docker_working_servers,
                   regVars, ioVars>>

\* server_info['primary'] raises KeyError: the future holds the exception.
TaskRaise(i) ==
    /\ prog = "dns"
    /\ fstate[i] = "RUNNING" /\ task[i].pc = "init"
    /\ ~dns_servers[i].has_primary
    /\ task' = [task EXCEPT ![i].pc = "done"]
    /\ fstate' = [fstate EXCEPT ![i] = "EXCEPTION"]
    /\ UNCHANGED <<prog, pc_main, dns_servers, max_workers, future_to_server, work_queue,
                   started, collected, results, working_servers, docker_working_servers,
                   regVars, ioVars>>

\* A differing task: successful_tests as one list shared by all the tasks.
GeneralProbeSharedList(i) ==
    /\ prog = "dns"
    /\ fstate[i] = "RUNNING" /\ task[i].pc = "general"
    /\ \E call \in NslookupCalls({0}, Times) :
         LET r == test_dns_resolution(call)
             add(j) == IF r.success /\ fstate[j] = "RUNNING" /\ task[j].pc = "general"
                       THEN [task[j] EXCEPT !.successful_tests = Append(@, r.time)]
                       ELSE task[j]
             t == IF r.success
                  THEN [add(i) EXCEPT !.success_count = @ + 1, !.n = @ + 1]
                  ELSE [task[i] EXCEPT !.n = @ + 1]
         IN  task' = [j \in Indexes |->
                        IF j # i THEN add(j)
                        ELSE IF t.n = Len(test_domains)
                        THEN [t EXCEPT !.pc = "docker", !.n = 0] ELSE t]
    /\ UNCHANGED <<prog, pc_main, dns_servers, max_workers, future_to_server, work_queue,
                   fstate, started, collected, results, working_servers,
                   docker_working_servers, regVars, ioVars>>

\* One iteration of "for domain in self.test_domains".
GeneralProbe(i) ==
    /\ prog = "dns"
    /\ fstate[i] = "RUNNING" /\ task[i].pc = "general"
    /\ \E call \in NslookupCalls({0}, Times) :
         LET r == test_dns_resolution(call)
             t == IF r.success
                  THEN [task[i] EXCEPT !.success_count = @ + 1,
                                       !.successful_tests = Append(@, r.time),
                                       !.n = @ + 1]
                  ELSE [task[i] EXCEPT !.n = @ + 1]
         IN  task' = [task EXCEPT ![i] =
                        IF t.n = Len(test_domains)
                        THEN [t EXCEPT !.pc = "docker", !.n = 0] ELSE t]
    /\ UNCHANGED <<prog, pc_main, dns_servers, max_workers, future_to_server, work_queue,
                   fstate, started, collected, results, working_servers, docker_working_servers,
                   regVars, ioVars>>

\* One iteration of "for domain in self.docker_domains".
DockerProbe(i) ==
    /\ prog = "dns"
    /\ fstate[i] = "RUNNING" /\ task[i].pc = "docker"
    /\ \E call \in NslookupCalls({0}, Times) :
         LET r == test_dns_resolution(call)
             t == IF r.success
                  THEN [task[i] EXCEPT !.docker_success_count = @ + 1,
                                       !.successful_docker_tests = Append(@, r.time),
                                       !.n = @ + 1]
                  ELSE [task[i] EXCEPT !.n = @ + 1]
         IN  task' = [task EXCEPT ![i] =
                        IF t.n = Len(docker_domains)
                        THEN [t EXCEPT !.pc = "return", !.n = 0] ELSE t]
    /\ UNCHANGED <<prog, pc_main, dns_servers, max_workers, future_to_server, work_queue,
                   fstate, started, collected, results, working_servers, docker_working_servers,
                   regVars, ioVars>>

\* The value _test_dns_server returns, from its locals.
test_dns_server(server_name, t) ==
    Merge(server_name,
          GeneralStats(t.success_count, t.successful_tests),
          DockerStats(t.docker_success_count, t.successful_docker_tests))

TaskResult(i) == test_dns_server(dns_servers[i].name, task[i])

\* _test_dns_server returns: the future holds the result.
TaskReturn(i) ==
    /\ prog = "dns"
    /\ fstate[i] = "RUNNING" /\ task[i].pc = "return"
    /\ task' = [task EXCEPT ![i].pc = "done"]
    /\ fstate' = [fstate EXCEPT ![i] = "RESULT"]
    /\ UNCHANGED <<prog, pc_main, dns_servers, max_workers, future_to_server, work_queue,
                   started, collected, results, working_servers, docker_working_servers,
                   regVars, ioVars>>

\* What the body of the as_completed loop does with a finished future.
Collected(i) ==
    IF fstate[i] = "RESULT" THEN Append(results, TaskResult(i)) ELSE results

\* as_completed yields a finished future; the loop body runs.
Collect(i) ==
    /\ prog = "dns" /\ pc_main = "collect"
    /\ i \in future_to_server \ collected
    /\ fstate[i] \in {"RESULT", "EXCEPTION"}
    /\ results' = Collected(i)
    /\ collected' = collected \cup {i}
    /\ UNCHANGED <<prog, pc_main, dns_servers, max_workers, future_to_server, work_queue,
                   fstate, task, started, working_servers, docker_working_servers,
                   regVars, ioVars>>

\* A differing collector: the return as soon as one future was collected.
MayReturnOnFirstResult == collected # {}

\* as_completed is exhausted and the with-block has joined the workers.
MayReturn == collected = future_to_server

Return ==
    /\ prog = "dns" /\ pc_main = "collect"
    /\ MayReturn
    /\ pc_main' = "returned"
    /\ UNCHANGED <<prog, dns_servers, max_workers, future_to_server, work_queue, fstate,
                   task, started, collected, results, working_servers, docker_working_servers,
                   regVars, ioVars>>

\* select_dns_interactive: filter and sort the returned results.
Rank ==
    /\ prog = "dns" /\ pc_main = "returned"
    /\ working_servers' = RankDns(results)
    /\ docker_working_servers' = SelectDockerWorking(results)
    /\ pc_main' = "ranked"
    /\ UNCHANGED <<prog, dns_servers, max_workers, future_to_server, work_queue, fstate,
                   task, started, collected, results,
                   regVars, ioVars>>

----------------------------------------------------------------------------
(* mirror_selector.py: probes *)

\* What requests.get(url, timeout=..., verify=False) can do, with the two
\* readings of time.time(), the wall clock, around it.
RequestsCalls(starts, ends) ==
    [kind : {"response"}, status_code : StatusCodes,
     start_time : starts, end_time : ends]
    \cup [kind : {"Timeout", "ConnectionError", "SSLError"}]

ACCEPTED_STATUS == {200, 401, 404}

test_registry_connectivity(call) ==
    IF call.kind = "response"
    THEN LET response_time == Rat(call.end_time - call.start_time, 1) IN
         IF call.status_code \in ACCEPTED_STATUS
         THEN Returned(TRUE, response_time)
         ELSE Returned(FALSE, Inf)
    ELSE IF call.kind \in ExceptionClasses
    THEN Returned(FALSE, Inf)
    ELSE Raised(call.kind)

test_docker_hub_connectivity(call) ==
    IF call.kind = "response"
    THEN LET response_time == Rat(call.end_time - call.start_time, 1) IN
         IF call.status_code \in ACCEPTED_STATUS
         THEN Returned(TRUE, response_time)
         ELSE Returned(FALSE, Inf)
    ELSE IF call.kind \in ExceptionClasses
    THEN Returned(FALSE, Inf)
    ELSE Raised(call.kind)

----------------------------------------------------------------------------
(* mirror_selector.py: _test_single_registry *)

HUB_WEIGHT == Rat(3, 2)

\* A differing score: the weight on the connectivity time.
total_score_weights_swapped(conn_time, hub_time) ==
    RatAdd(RatMul(conn_time, Rat(3, 2)), hub_time)

total_score(conn_time, hub_time) == RatAdd(conn_time, RatMul(hub_time, HUB_WEIGHT))

\* The dict _test_single_registry returns, from the outcomes of its probes;
\* hub is (False, inf), the initial value, when the hub probe did not run.
SingleRegistryResult(registry, conn, hub) ==
    [name |-> registry.name,
     mirror |-> registry.mirror,
     insecure |-> registry.insecure,
     connectivity_success |-> conn.success,
     connectivity_time |-> conn.time,
     hub_success |-> hub.success,
     hub_time |-> hub.time,
     total_score |-> IF conn.success /\ hub.success
                     THEN total_score(conn.time, hub.time) ELSE Inf,
     status |-> IF conn.success
                THEN (IF hub.success THEN "Working" ELSE "Hub Access Failed")
                ELSE "Connection Failed"]

----------------------------------------------------------------------------
(* mirror_selector.py: ranking and display *)

RegKeyLess(x, y) == RatLess(x.total_score, y.total_score)

RECURSIVE InsertReg(_, _)
InsertReg(sorted, x) ==
    IF sorted = <<>> THEN <<x>>
    ELSE IF RegKeyLess(x, Head(sorted)) THEN <<x>> \o sorted
    ELSE <<Head(sorted)>> \o InsertReg(Tail(sorted), x)

RECURSIVE SortReg(_)
SortReg(xs) == IF xs = <<>> THEN <<>>
               ELSE InsertReg(SortReg(SubSeq(xs, 1, Len(xs) - 1)), xs[Len(xs)])

FilterWorkingReg(xs) == SelectSeq(xs, LAMBDA r : r.status = "Working")

RankReg(xs) == SortReg(FilterWorkingReg(xs))

\* The lines of "Failed Registry Mirrors": name, mirror and status.
FailedLines(xs) ==
    LET failed == SelectSeq(xs, LAMBDA r : r.status # "Working") IN
    [k \in 1..Len(failed) |->
        [name |-> failed[k].name, mirror |-> failed[k].mirror, status |-> failed[k].status]]

\* The lines of "Test Summary": name, mirror and the two check marks.
SummaryLines(xs) ==
    [k \in 1..Len(xs) |->
        [name |-> xs[k].name, mirror |-> xs[k].mirror,
         connectivity |-> xs[k].connectivity_success, hub |-> xs[k].hub_success]]

----------------------------------------------------------------------------
(* mirror_selector.py: test_all_registries and display_results_and_choose *)

InitMirror ==
    /\ prog = "mirror"
    /\ pc_main = "test"
    /\ \E n \in 0..MaxMirrors :
         registry_mirrors \in [1..n -> [name : {"Registry_1"},
                                        mirror : {MirrorUrls[i] : i \in 1..n},
                                        insecure : {FALSE}]]
    /\ \A i \in 1..Len(registry_mirrors) : registry_mirrors[i].mirror = MirrorUrls[i]
    /\ reg = NoReg
    /\ results = <<>>
    /\ working_results = <<>>
    /\ failed_results = <<>>
    /\ test_summary = <<>>
    /\ DnsIdle
    /\ IoIdle

\* "for registry in self.registry_mirrors": the next registry, connectivity first.
\* A failed connectivity probe ends _test_single_registry; the result is appended.
RegConnectivity ==
    /\ prog = "mirror" /\ pc_main = "test"
    /\ Len(results) < Len(registry_mirrors)
    /\ LET i == Len(results) + 1 IN
       \E call \in RequestsCalls({0}, Elapsed) :
         LET conn == test_registry_connectivity(call) IN
         IF conn.success
         THEN /\ reg' = [i |-> i, conn_time |-> conn.time]
              /\ pc_main' = "hub"
              /\ UNCHANGED results
         ELSE /\ results' = Append(results,
                     SingleRegistryResult(registry_mirrors[i], conn, Returned(FALSE, Inf)))
              /\ UNCHANGED <<reg, pc_main>>
    /\ UNCHANGED <<prog, dnsVars, registry_mirrors, working_results, failed_results,
                   test_summary, ioVars>>

\* The hub probe of the registry whose connectivity probe succeeded.
RegHub ==
    /\ prog = "mirror" /\ pc_main = "hub"
    /\ \E call \in RequestsCalls({0}, Elapsed) :
         results' = Append(results,
             SingleRegistryResult(registry_mirrors[reg.i], Returned(TRUE, reg.conn_time),
                                  test_docker_hub_connectivity(call)))
    /\ reg' = NoReg
    /\ pc_main' = "test"
    /\ UNCHANGED <<prog, dnsVars, registry_mirrors, working_results, failed_results,
                   test_summary, ioVars>>

\* The loop of test_all_registries is over: return results.
RegMayReturn == Len(results) = Len(registry_mirrors)

RegReturn ==
    /\ prog = "mirror" /\ pc_main = "test"
    /\ RegMayReturn
    /\ pc_main' = "returned"
    /\ UNCHANGED <<prog, results, dnsVars, regVars, ioVars>>

\* display_results_and_choose up to its prompt.
Display ==
    /\ prog = "mirror" /\ pc_main = "returned"
    /\ working_results' = RankReg(results)
    /\ IF working_results' = <<>>
       THEN /\ test_summary' = SummaryLines(results)
            /\ failed_results' = <<>>
            /\ pc_main' = "no_working"
       ELSE /\ failed_results' = FailedLines(results)
            /\ test_summary' = <<>>
            /\ pc_main' = "choose"
    /\ UNCHANGED <<prog, results, dnsVars, registry_mirrors, reg, ioVars>>

----------------------------------------------------------------------------
(* The two scripts *)

Init == InitDns \/ InitMirror

NextDns ==
    \/ Submit
    \/ AllSubmitted
    \/ \E i \in Indexes : StartTask(i)
    \/ \E i \in Indexes : TaskInit(i)
    \/ \E i \in Indexes : TaskRaise(i)
    \/ \E i \in Indexes : GeneralProbe(i)
    \/ \E i \in Indexes : DockerProbe(i)
    \/ \E i \in Indexes : TaskReturn(i)
    \/ \E i \in Indexes : Collect(i)
    \/ Return
    \/ Rank

NextMirror ==
    \/ RegConnectivity
    \/ RegHub
    \/ RegReturn
    \/ Display

Next == NextDns \/ NextMirror

Spec == Init /\ [][Next]_vars

\* dns_selector.py alone.
SpecDns == InitDns /\ [][NextDns]_vars

----------------------------------------------------------------------------
(* select_dns_interactive on the results of a run whose probes took different
   times: the state in which test_all_dns_servers has returned. *)

\* The successful probe times of one battery of n probes, slowest last.
BatteryTimes(n) ==
    {[k \in 1..Len(ts) |-> Rat(ts[k], 1)] :
        ts \in {s \in UNION {[1..k -> Elapsed] : k \in 0..n} :
                   \A a, b \in 1..Len(s) : a < b => s[a] <= s[b]}}

ReturnedTasks ==
    {[pc |-> "done", n |-> 0,
      success_count |-> Len(g), successful_tests |-> g,
      docker_success_count |-> Len(d), successful_docker_tests |-> d] :
        g \in BatteryTimes(Len(test_domains)), d \in BatteryTimes(Len(docker_domains))}

InitRank ==
    /\ prog = "dns"
    /\ pc_main = "returned"
    /\ \E n \in 1..MaxServers :
         /\ dns_servers = [i \in 1..n |-> [name |-> ServerNames[i], has_primary |-> TRUE]]
         /\ task \in [1..n -> ReturnedTasks]
    /\ max_workers = DEFAULT_MAX_WORKERS
    /\ future_to_server = Indexes
    /\ work_queue = <<>>
    /\ fstate = [i \in Indexes |-> "RESULT"]
    /\ started = [i \in Indexes |-> 1]
    /\ collected = Indexes
    /\ results = [i \in Indexes |-> TaskResult(i)]
    /\ working_servers = <<>>
    /\ docker_working_servers = <<>>
    /\ RegIdle
    /\ IoIdle

SpecRank == InitRank /\ [][Rank]_vars

----------------------------------------------------------------------------
(* One probe call on its own *)

\* The wall clock is read before and after the call; each reading is whatever
\* the system clock shows at that moment, and the clock can be set between them.
ClockReadings == 0..MaxClock

ProbeCalls ==
    {[fn |-> "_test_dns_resolution", call |-> c] :
        c \in NslookupCalls(ClockReadings, ClockReadings)}
    \cup {[fn |-> f, call |-> c] :
        f \in {"_test_registry_connectivity", "_test_docker_hub_connectivity"},
        c \in RequestsCalls(ClockReadings, ClockReadings)}

InitProbe ==
    /\ probe \in ProbeCalls
    /\ prog = IF probe.fn = "_test_dns_resolution" THEN "dns" ELSE "mirror"
    /\ pc_main = "probe"
    /\ results = <<>>
    /\ DnsIdle
    /\ RegIdle
    /\ apply = [fn |-> ""]
    /\ etc_file = NoFile
    /\ etc_before = NoFile
    /\ backup_file = NoFile
    /\ tmp_file = NoFile
    /\ main = NoMain

ProbeOutcome(fn, call) ==
    CASE fn = "_test_dns_resolution" -> test_dns_resolution(call)
      [] fn = "_test_registry_connectivity" -> test_registry_connectivity(call)
      [] fn = "_test_docker_hub_connectivity" -> test_docker_hub_connectivity(call)

\* The probe runs and hands its outcome to the caller.
ProbeCall ==
    /\ pc_main = "probe"
    /\ probe' = [fn |-> probe.fn, call |-> probe.call,
                 out |-> ProbeOutcome(probe.fn, probe.call)]
    /\ pc_main' = "probed"
    /\ UNCHANGED <<prog, results, dnsVars, regVars, apply, etc_file, etc_before,
                   backup_file, tmp_file, main>>

SpecProbe == InitProbe /\ [][ProbeCall]_vars

----------------------------------------------------------------------------
(* dns_selector.py: apply_dns_settings *)

Text(lines) == [kind |-> "text", body |-> lines]

Addresses == {"1.1.1.1", "8.8.8.8"}
OldResolvConf == {NoFile, Text(<<"192.168.1.1">>), Text(<<"1.1.1.1">>)}

resolv_conf_content(primary_dns, secondary_dns) ==
    IF secondary_dns # "" THEN <<primary_dns, secondary_dns>> ELSE <<primary_dns>>

\* The return of an apply operation.
ApplyReturn(ret) == [apply EXCEPT !.pc = "done", !.ret = ret]

\* sudo cp /etc/resolv.conf /etc/resolv.conf.backup, check=True.
DnsBackup ==
    /\ apply.fn = "apply_dns_settings" /\ apply.pc = "backup"
    /\ \/ /\ etc_file.kind # "absent"
          /\ backup_file' = etc_file
          /\ apply' = [apply EXCEPT !.pc = "write_tmp"]
       \/ /\ apply' = ApplyReturn("False")
          /\ UNCHANGED backup_file
    /\ UNCHANGED <<prog, pc_main, results, dnsVars, regVars, probe, etc_file, etc_before,
                   tmp_file, main>>

\* with open('/tmp/resolv.conf.new', 'w') as f: f.write(resolv_conf_content).
DnsWriteTmp ==
    /\ apply.fn = "apply_dns_settings" /\ apply.pc = "write_tmp"
    /\ \/ /\ tmp_file' = Text(resolv_conf_content(apply.primary_dns, apply.secondary_dns))
          /\ apply' = [apply EXCEPT !.pc = "overwrite"]
       \/ /\ apply' = ApplyReturn("False")
          /\ UNCHANGED tmp_file
    /\ UNCHANGED <<prog, pc_main, results, dnsVars, regVars, probe, etc_file, etc_before,
                   backup_file, main>>

\* sudo cp /tmp/resolv.conf.new /etc/resolv.conf, check=True.
DnsOverwrite ==
    /\ apply.fn = "apply_dns_settings" /\ apply.pc = "overwrite"
    /\ \/ /\ etc_file' = tmp_file
          /\ apply' = [apply EXCEPT !.pc = "rm", !.writes = @ + 1]
       \/ /\ apply' = ApplyReturn("False")
          /\ UNCHANGED etc_file
    /\ UNCHANGED <<prog, pc_main, results, dnsVars, regVars, probe, etc_before,
                   backup_file, tmp_file, main>>

\* rm /tmp/resolv.conf.new, check=True; then return True.
DnsRemoveTmp ==
    /\ apply.fn = "apply_dns_settings" /\ apply.pc = "rm"
    /\ \/ /\ tmp_file' = NoFile
          /\ apply' = ApplyReturn("True")
       \/ /\ apply' = ApplyReturn("False")
          /\ UNCHANGED tmp_file
    /\ UNCHANGED <<prog, pc_main, results, dnsVars, regVars, probe, etc_file, etc_before,
                   backup_file, main>>

----------------------------------------------------------------------------
(* mirror_selector.py: _configure_docker_daemon *)

EmptyDict == [k \in {} |-> <<>>]
Json(dict) == [kind |-> "json", body |-> dict]
Invalid == [kind |-> "invalid"]

OldDaemonJson ==
    {NoFile, Invalid, Json(EmptyDict),
     Json("registry-mirrors" :> <<MirrorUrls[1]>>),
     Json(("log-driver" :> <<"json-file">>) @@ ("insecure-registries" :> <<MirrorUrls[2]>>))}

SelectedMirrors ==
    [name : {"Registry_1"}, mirror : {MirrorUrls[1], MirrorUrls[2]}, insecure : BOOLEAN]

Contains(xs, x) == \E k \in 1..Len(xs) : xs[k] = x

\* daemon_config after the selected mirror is merged into it.
MergeMirror(daemon_config, selected_mirror) ==
    LET c1 == ("registry-mirrors" :> <<selected_mirror.mirror>>) @@ daemon_config
        c2 == IF "insecure-registries" \notin DOMAIN c1
              THEN ("insecure-registries" :> <<>>) @@ c1 ELSE c1
        c3 == IF ~Contains(c2["insecure-registries"], selected_mirror.mirror)
              THEN [c2 EXCEPT !["insecure-registries"] = Append(@, selected_mirror.mirror)]
              ELSE c2
    IN  IF selected_mirror.insecure THEN c3 ELSE c1

\* Load the existing daemon.json if it exists, and merge the selected mirror.
DaemonLoad ==
    /\ apply.fn = "_configure_docker_daemon" /\ apply.pc = "load"
    /\ \/ LET daemon_config == IF etc_file.kind = "json" THEN etc_file.body ELSE EmptyDict
          IN  apply' = [apply EXCEPT !.pc = "write",
                            !.daemon_config = MergeMirror(daemon_config, apply.selected_mirror)]
       \/ /\ etc_file.kind # "absent"
          /\ apply' = ApplyReturn("False")
    /\ UNCHANGED <<prog, pc_main, results, dnsVars, regVars, probe, etc_file, etc_before,
                   backup_file, tmp_file, main>>

\* with open(self.daemon_json_path, 'w') as f: json.dump(daemon_config, f).
DaemonWrite ==
    /\ apply.fn = "_configure_docker_daemon" /\ apply.pc = "write"
    /\ \/ /\ etc_file' = Json(apply.daemon_config)
          /\ apply' = [apply EXCEPT !.pc = "restart", !.writes = @ + 1]
       \/ /\ apply' = ApplyReturn("False")
          /\ UNCHANGED etc_file
    /\ UNCHANGED <<prog, pc_main, results, dnsVars, regVars, probe, etc_before,
                   backup_file, tmp_file, main>>

\* systemctl restart docker: a non-zero return code returns False.
DaemonRestart ==
    /\ apply.fn = "_configure_docker_daemon" /\ apply.pc = "restart"
    /\ \E returncode \in {0, 1} :
         apply' = IF returncode # 0 THEN ApplyReturn("False")
                  ELSE [apply EXCEPT !.pc = "verify"]
    /\ UNCHANGED <<prog, pc_main, results, dnsVars, regVars, probe, etc_file, etc_before,
                   backup_file, tmp_file, main>>

\* docker info after the restart: a non-zero return code returns False.
DaemonVerify ==
    /\ apply.fn = "_configure_docker_daemon" /\ apply.pc = "verify"
    /\ \E returncode \in {0, 1} :
         apply' = IF returncode # 0 THEN ApplyReturn("False")
                  ELSE [ApplyReturn("True") EXCEPT !.verified = TRUE]
    /\ UNCHANGED <<prog, pc_main, results, dnsVars, regVars, probe, etc_file, etc_before,
                   backup_file, tmp_file, main>>

----------------------------------------------------------------------------
(* The apply operations, from the moment they are called *)

InitApply ==
    /\ \/ /\ prog = "dns"
          /\ apply \in [fn : {"apply_dns_settings"}, pc : {"backup"}, ret : {""},
                        writes : {0}, verified : {FALSE},
                        primary_dns : Addresses, secondary_dns : Addresses \cup {""}]
          /\ etc_file \in OldResolvConf
       \/ /\ prog = "mirror"
          /\ apply \in [fn : {"_configure_docker_daemon"}, pc : {"load"}, ret : {""},
                        writes : {0}, verified : {FALSE},
                        selected_mirror : SelectedMirrors, daemon_config : {EmptyDict}]
          /\ etc_file \in OldDaemonJson
    /\ etc_before = etc_file
    /\ backup_file = NoFile
    /\ tmp_file = NoFile
    /\ main = NoMain
    /\ pc_main = "apply"
    /\ results = <<>>
    /\ probe = [fn |-> ""]
    /\ DnsIdle
    /\ RegIdle

NextApply ==
    \/ DnsBackup
    \/ DnsWriteTmp
    \/ DnsOverwrite
    \/ DnsRemoveTmp
    \/ DaemonLoad
    \/ DaemonWrite
    \/ DaemonRestart
    \/ DaemonVerify

SpecApply == InitApply /\ [][NextApply]_vars

----------------------------------------------------------------------------
(* The operator's dialogue: input(), strip().lower(), int() *)

Lines == {"q", " Q ", "0", "1", "2", "7", "-1", "abc", "", "y", "YES", "n"}

\* What input() does: a line, or an exception.
Inputs ==
    [kind : {"line"}, text : Lines] \cup [kind : {"EOFError", "KeyboardInterrupt"}]

\* str.strip().lower() on the lines above.
StripLower(line) ==
    CASE line = " Q " -> "q"
      [] line = "YES" -> "yes"
      [] OTHER -> line

\* int(choice): the value, or ValueError for text that is no integer literal.
IntLiterals == {"0", "1", "2", "7", "-1"}
int(choice) ==
    CASE choice = "0" -> 0
      [] choice = "1" -> 1
      [] choice = "2" -> 2
      [] choice = "7" -> 7
      [] choice = "-1" -> -1

\* "if 1 <= choice_num <= len(...)", with the menu accepting from 0 as a variant.
InRangeFromZero(choice_num, n) == 0 <= choice_num /\ choice_num <= n
InRange(choice_num, n) == 1 <= choice_num /\ choice_num <= n

\* main() is over: what happened, the exit code, the exception that left main.
MainEnd(m, outcome, exit_code, raised) ==
    [m EXCEPT !.outcome = outcome, !.exit_code = exit_code, !.raised = raised]

\* One more round of "while True" after a rejected line.
Reprompt(m) == [m EXCEPT !.reprompts = @ + 1]

----------------------------------------------------------------------------
(* dns_selector.py: the prompts of select_dns_interactive and main *)

\* "if not working_servers: return None", and main returns 1.
DnsNoWorking ==
    /\ prog = "dns" /\ pc_main = "ranked"
    /\ working_servers = <<>>
    /\ main' = MainEnd(main, "no_eligible", EXIT_FAILURE, "")
    /\ pc_main' = "exit"
    /\ UNCHANGED <<prog, results, dnsVars, regVars, probe, apply, etc_file, etc_before,
                   backup_file, tmp_file>>

\* One round of the selection loop: input() and what follows it. EOFError is
\* caught neither by the loop nor by main.
DnsChoose ==
    /\ prog = "dns" /\ pc_main = "ranked"
    /\ working_servers # <<>>
    /\ main.prompts = main.reprompts
    /\ \E in \in Inputs :
         LET m == [main EXCEPT !.prompts = @ + 1,
                               !.choice = IF in.kind = "line" THEN StripLower(in.text)
                                          ELSE in.kind]
         IN  CASE in.kind = "KeyboardInterrupt" ->
                    /\ main' = MainEnd(m, "cancelled", EXIT_FAILURE, "")
                    /\ pc_main' = "exit"
               [] in.kind = "EOFError" ->
                    /\ main' = MainEnd(m, "cancelled", EXIT_FAILURE, "EOFError")
                    /\ pc_main' = "exit"
               [] in.kind = "line" /\ m.choice = "q" ->
                    /\ main' = MainEnd(m, "cancelled", EXIT_FAILURE, "")
                    /\ pc_main' = "exit"
               [] in.kind = "line" /\ m.choice # "q" ->
                    IF m.choice \in IntLiterals /\ InRange(int(m.choice), Len(working_servers))
                    THEN /\ main' = [m EXCEPT !.selected = int(m.choice)]
                         /\ pc_main' = "apply_prompt"
                    ELSE /\ main.reprompts < MaxPrompts
                         /\ main' = Reprompt(m)
                         /\ pc_main' = "ranked"
    /\ UNCHANGED <<prog, results, dnsVars, regVars, probe, apply, etc_file, etc_before,
                   backup_file, tmp_file>>

\* main: "Apply for Docker installation? (y/N)"; no exception is caught here.
DnsApplyPrompt ==
    /\ prog = "dns" /\ pc_main = "apply_prompt"
    /\ \E in \in Inputs :
         CASE in.kind = "KeyboardInterrupt" ->
                /\ main' = MainEnd(main, "cancelled", EXIT_SIGINT, "KeyboardInterrupt")
                /\ pc_main' = "exit"
                /\ UNCHANGED <<apply, etc_before>>
           [] in.kind = "EOFError" ->
                /\ main' = MainEnd(main, "cancelled", EXIT_FAILURE, "EOFError")
                /\ pc_main' = "exit"
                /\ UNCHANGED <<apply, etc_before>>
           [] in.kind = "line" /\ StripLower(in.text) \in {"y", "yes"} ->
                /\ main' = [main EXCEPT !.confirmed = TRUE]
                /\ pc_main' = "apply"
                /\ apply' \in [fn : {"apply_dns_settings"}, pc : {"backup"}, ret : {""},
                               writes : {0}, verified : {FALSE},
                               primary_dns : Addresses, secondary_dns : {""}]
                /\ etc_before' = etc_file
           [] in.kind = "line" /\ StripLower(in.text) \notin {"y", "yes"} ->
                /\ main' = MainEnd(main, "declined", EXIT_OK, "")
                /\ pc_main' = "exit"
                /\ UNCHANGED <<apply, etc_before>>
    /\ UNCHANGED <<prog, results, dnsVars, regVars, probe, etc_file, backup_file, tmp_file>>

\* main: apply_dns_settings has returned.
DnsMainReturn ==
    /\ prog = "dns" /\ pc_main = "apply" /\ apply.pc = "done"
    /\ main' = IF apply.ret = "True" THEN MainEnd(main, "applied", EXIT_OK, "")
               ELSE MainEnd(main, "apply_failed", EXIT_FAILURE, "")
    /\ pc_main' = "exit"
    /\ UNCHANGED <<prog, results, dnsVars, regVars, probe, apply, etc_file, etc_before,
                   backup_file, tmp_file>>

----------------------------------------------------------------------------
(* mirror_selector.py: main, run_selection and the prompts *)

\* main: "if os.geteuid() != 0: return 1".
MirrorGeteuid ==
    /\ prog = "mirror" /\ pc_main = "main"
    /\ \E euid \in {ROOT, 1000} :
         IF euid # ROOT
         THEN /\ main' = MainEnd(main, "precondition_failed", EXIT_FAILURE, "")
              /\ pc_main' = "exit"
         ELSE /\ pc_main' = "precheck"
              /\ UNCHANGED main
    /\ UNCHANGED <<prog, results, dnsVars, regVars, probe, apply, etc_file, etc_before,
                   backup_file, tmp_file>>

\* run_selection: docker --version and docker info, check=True.
MirrorDockerCheck ==
    /\ prog = "mirror" /\ pc_main = "precheck"
    /\ \E returncode \in {0, 1} :
         IF returncode # 0
         THEN /\ main' = MainEnd(main, "precondition_failed", EXIT_FAILURE, "")
              /\ pc_main' = "exit"
         ELSE /\ pc_main' = "test"
              /\ UNCHANGED main
    /\ UNCHANGED <<prog, results, dnsVars, regVars, probe, apply, etc_file, etc_before,
                   backup_file, tmp_file>>

\* display_results_and_choose returned None for want of a working mirror.
MirrorNoWorking ==
    /\ prog = "mirror" /\ pc_main = "no_working"
    /\ main' = MainEnd(main, "no_eligible", EXIT_FAILURE, "")
    /\ pc_main' = "exit"
    /\ UNCHANGED <<prog, results, dnsVars, regVars, probe, apply, etc_file, etc_before,
                   backup_file, tmp_file>>

\* One round of the selection loop. An exception of input() leaves
\* display_results_and_choose and run_selection and is caught in main.
MirrorChoose ==
    /\ prog = "mirror" /\ pc_main = "choose"
    /\ main.prompts = main.reprompts
    /\ \E in \in Inputs :
         LET m == [main EXCEPT !.prompts = @ + 1,
                               !.choice = IF in.kind = "line" THEN StripLower(in.text)
                                          ELSE in.kind]
         IN  CASE in.kind \in {"KeyboardInterrupt", "EOFError"} ->
                    /\ main' = MainEnd(m, "cancelled", EXIT_FAILURE, "")
                    /\ pc_main' = "exit"
               [] in.kind = "line" /\ m.choice = "q" ->
                    /\ main' = MainEnd(m, "cancelled", EXIT_FAILURE, "")
                    /\ pc_main' = "exit"
               [] in.kind = "line" /\ m.choice = "0" ->
                    /\ main' = MainEnd(m, "skipped", EXIT_FAILURE, "")
                    /\ pc_main' = "exit"
               [] in.kind = "line" /\ m.choice \notin {"q", "0"} ->
                    IF m.choice \in IntLiterals /\ InRange(int(m.choice), Len(working_results))
                    THEN /\ main' = [m EXCEPT !.selected = int(m.choice)]
                         /\ pc_main' = "confirm"
                    ELSE /\ main.reprompts < MaxPrompts
                         /\ main' = Reprompt(m)
                         /\ pc_main' = "choose"
    /\ UNCHANGED <<prog, results, dnsVars, regVars, probe, apply, etc_file, etc_before,
                   backup_file, tmp_file>>

\* "Confirm configuration? (y/N)": the selected mirror is returned and
\* run_selection calls _configure_docker_daemon, or the loop goes round again.
MirrorConfirm ==
    /\ prog = "mirror" /\ pc_main = "confirm"
    /\ \E in \in Inputs :
         CASE in.kind \in {"KeyboardInterrupt", "EOFError"} ->
                /\ main' = MainEnd(main, "cancelled", EXIT_FAILURE, "")
                /\ pc_main' = "exit"
                /\ UNCHANGED <<apply, etc_before>>
           [] in.kind = "line" /\ StripLower(in.text) \in {"y", "yes"} ->
                /\ main' = [main EXCEPT !.confirmed = TRUE]
                /\ pc_main' = "apply"
                /\ apply' = [fn |-> "_configure_docker_daemon", pc |-> "load", ret |-> "",
                             writes |-> 0, verified |-> FALSE,
                             selected_mirror |->
                                 [name |-> working_results[main.selected].name,
                                  mirror |-> working_results[main.selected].mirror,
                                  insecure |-> working_results[main.selected].insecure],
                             daemon_config |-> EmptyDict]
                /\ etc_before' = etc_file
           [] in.kind = "line" /\ StripLower(in.text) \notin {"y", "yes"} ->
                /\ main.reprompts < MaxPrompts
                /\ main' = [Reprompt(main) EXCEPT !.selected = 0]
                /\ pc_main' = "choose"
                /\ UNCHANGED <<apply, etc_before>>
    /\ UNCHANGED <<prog, results, dnsVars, regVars, probe, etc_file, backup_file, tmp_file>>

\* run_selection: _configure_docker_daemon has returned; after True the test
\* pull runs and run_selection returns True whatever the pull's return code.
MirrorMainReturn ==
    /\ prog = "mirror" /\ pc_main = "apply" /\ apply.pc = "done"
    /\ main' = IF apply.ret = "True" THEN MainEnd(main, "applied", EXIT_OK, "")
               ELSE MainEnd(main, "apply_failed", EXIT_FAILURE, "")
    /\ pc_main' = "exit"
    /\ UNCHANGED <<prog, results, dnsVars, regVars, probe, apply, etc_file, etc_before,
                   backup_file, tmp_file>>

----------------------------------------------------------------------------
(* The two scripts with their operator: main() from the return of the DNS
   tests, respectively from the start of mirror_selector's main *)

\* The returned tasks whose successful probes all took one tick.
MainTasks ==
    {t \in ReturnedTasks :
        /\ \A k \in 1..Len(t.successful_tests) : t.successful_tests[k] = Rat(1, 1)
        /\ \A k \in 1..Len(t.successful_docker_tests) :
               t.successful_docker_tests[k] = Rat(1, 1)}

InitMain ==
    /\ \/ /\ prog = "dns"
          /\ pc_main = "returned"
          /\ \E n \in 0..MaxServers :
               /\ dns_servers = [i \in 1..n |-> [name |-> ServerNames[i], has_primary |-> TRUE]]
               /\ task \in [1..n -> MainTasks]
          /\ max_workers = DEFAULT_MAX_WORKERS
          /\ future_to_server = Indexes
          /\ work_queue = <<>>
          /\ fstate = [i \in Indexes |-> "RESULT"]
          /\ started = [i \in Indexes |-> 1]
          /\ collected = Indexes
          /\ results = [i \in Indexes |-> TaskResult(i)]
          /\ working_servers = <<>>
          /\ docker_working_servers = <<>>
          /\ RegIdle
          /\ etc_file \in OldResolvConf
       \/ /\ prog = "mirror"
          /\ pc_main = "main"
          /\ \E n \in 0..MaxMirrors :
               registry_mirrors = [i \in 1..n |-> [name |-> "Registry_1",
                                                   mirror |-> MirrorUrls[i],
                                                   insecure |-> FALSE]]
          /\ reg = NoReg
          /\ results = <<>>
          /\ working_results = <<>>
          /\ failed_results = <<>>
          /\ test_summary = <<>>
          /\ DnsIdle
          /\ etc_file \in OldDaemonJson
    /\ etc_before = etc_file
    /\ backup_file = NoFile
    /\ tmp_file = NoFile
    /\ probe = [fn |-> ""]
    /\ apply = [fn |-> ""]
    /\ main = NoMain

NextMain ==
    \/ Rank
    \/ DnsNoWorking
    \/ DnsChoose
    \/ DnsApplyPrompt
    \/ DnsMainReturn
    \/ MirrorGeteuid
    \/ MirrorDockerCheck
    \/ NextMirror
    \/ MirrorNoWorking
    \/ MirrorChoose
    \/ MirrorConfirm
    \/ MirrorMainReturn
    \/ NextApply

SpecMain == InitMain /\ [][NextMain]_vars

----------------------------------------------------------------------------
(* Claims checked under Spec *)

Finished == {"RESULT", "EXCEPTION"}
AfterReturn == pc_main \in {"returned", "ranked"}
AfterDisplay == pc_main \in {"choose", "no_working"}
RecordsOf(name) == {k \in 1..Len(results) : results[k].name = name}
Permuted(xs, p) == [k \in 1..Len(xs) |-> xs[p[k]]]

\* C1: when test_all_dns_servers has returned, the result list holds exactly
\* one stats record for every submitted endpoint, and the record of an endpoint
\* whose task raised is a zero-success record (success_count 0, working false).
C1_EveryEndpointHasOneRecord ==
    (prog = "dns" /\ AfterReturn) =>
        \A i \in Indexes :
            /\ Cardinality(RecordsOf(dns_servers[i].name)) = 1
            /\ fstate[i] = "EXCEPTION" =>
                   \A k \in RecordsOf(dns_servers[i].name) :
                       results[k].success_count = 0 /\ ~results[k].working

\* C2: the ranked order is the same for every arrival order of the same
\* per-endpoint stats, in the DNS ranking and in the registry ranking.
C2_ArrivalOrderIndependent ==
    /\ (prog = "dns" /\ pc_main = "ranked") =>
           \A p \in Permutations(1..Len(results)) :
               RankDns(Permuted(results, p)) = working_servers
    /\ (prog = "mirror" /\ AfterDisplay) =>
           \A p \in Permutations(1..Len(results)) :
               RankReg(Permuted(results, p)) = working_results

\* C5: every endpoint of the ranked DNS list resolved at least 2 of the 4
\* general targets (success rate at least 50%), and no endpoint below that is
\* in the ranked list, whatever its Docker-specific results.
C5_RankedAreGenerallyEligible ==
    (prog = "dns" /\ pc_main = "ranked") =>
        /\ \A k \in 1..Len(working_servers) :
               2 * working_servers[k].success_count >= Len(test_domains)
        /\ \A k \in 1..Len(results) :
               2 * results[k].success_count < Len(test_domains) =>
                   \A j \in 1..Len(working_servers) :
                       working_servers[j].name # results[k].name
        /\ \A k \in 1..Len(results) :
               2 * results[k].success_count >= Len(test_domains) =>
                   \E j \in 1..Len(working_servers) : working_servers[j] = results[k]

C5_Witness ==
    /\ prog = "dns" /\ pc_main = "ranked"
    /\ \E k \in 1..Len(results) :
           /\ results[k].success_count = 1 /\ results[k].docker_working
           /\ \A j \in 1..Len(working_servers) : working_servers[j].name # results[k].name
    /\ \E j \in 1..Len(working_servers) :
           working_servers[j].success_count = 2 /\ ~working_servers[j].docker_working

\* C7 as stated: a registry's score is finite and equal to
\* connectivity time + 1.5 * hub time exactly when both checks succeeded, the
\* ranked list holds exactly those registries in ascending score order, and
\* every other registry is listed under "Failed Registry Mirrors" with the
\* status "Connection Failed" or "Hub Access Failed".
BothSucceeded(r) == r.connectivity_success /\ r.hub_success
ScoreIsWeightedSum(r) ==
    LET sc == r.total_score
        c == r.connectivity_time
        h == r.hub_time
    IN  /\ IsFinite(sc) /\ IsFinite(c) /\ IsFinite(h)
        /\ 2 * sc[1] * c[2] * h[2] = sc[2] * (2 * c[1] * h[2] + 3 * h[1] * c[2])
RankedAreTheWorkingAscending ==
    /\ \A k \in 1..Len(results) :
           (IsFinite(results[k].total_score) <=> BothSucceeded(results[k]))
           /\ (BothSucceeded(results[k]) => ScoreIsWeightedSum(results[k]))
    /\ {working_results[j].mirror : j \in 1..Len(working_results)}
           = {results[k].mirror : k \in {n \in 1..Len(results) : BothSucceeded(results[n])}}
    /\ Len(working_results)
           = Cardinality({n \in 1..Len(results) : BothSucceeded(results[n])})
    /\ \A j \in 1..Len(working_results) :
           \E k \in 1..Len(results) : working_results[j] = results[k]
    /\ \A a, b \in 1..Len(working_results) :
           a < b => ~RatLess(working_results[b].total_score, working_results[a].total_score)
FailureStatus(r) ==
    IF r.connectivity_success THEN "Hub Access Failed" ELSE "Connection Failed"
FailedAreListedWithStatus ==
    \A k \in 1..Len(results) :
        ~BothSucceeded(results[k]) =>
            \E j \in 1..Len(failed_results) :
                /\ failed_results[j].mirror = results[k].mirror
                /\ failed_results[j].status = FailureStatus(results[k])
FailedAreInSummary ==
    /\ Len(test_summary) = Len(results)
    /\ \A k \in 1..Len(results) :
           /\ test_summary[k].mirror = results[k].mirror
           /\ test_summary[k].connectivity = results[k].connectivity_success
           /\ test_summary[k].hub = results[k].hub_success

C7_FailedAlwaysListedWithStatus ==
    (prog = "mirror" /\ AfterDisplay) =>
        RankedAreTheWorkingAscending /\ FailedAreListedWithStatus

\* C7 as amended: the score and the ranked list are as stated; the registries
\* where a check failed are listed with their failure status when at least one
\* registry is ranked, and when none is ranked every registry is listed in the
\* test summary with the marks of its two checks and no status line is printed.
C7_RegistryRanking ==
    (prog = "mirror" /\ AfterDisplay) =>
        /\ RankedAreTheWorkingAscending
        /\ working_results # <<>> => FailedAreListedWithStatus /\ test_summary = <<>>
        /\ working_results = <<>> => FailedAreInSummary /\ failed_results = <<>>

C7_Witness ==
    /\ prog = "mirror" /\ pc_main = "choose"
    /\ Len(working_results) = 2
    /\ RatLess(working_results[1].total_score, working_results[2].total_score)
    /\ RatLess(working_results[2].connectivity_time, working_results[1].connectivity_time)
    /\ \E j \in 1..Len(failed_results) : failed_results[j].status = "Hub Access Failed"

\* C8: a step of one endpoint's task (a failing probe and the raise of an
\* exception included) changes neither the locals, the future, the queue
\* position nor the collected record of any other endpoint; and at the return
\* of test_all_dns_servers every endpoint whose own task did not raise has run
\* to completion and its record is the one computed from its own probes.
WorkerStep(j) ==
    \/ StartTask(j) \/ TaskInit(j) \/ TaskRaise(j)
    \/ GeneralProbe(j) \/ DockerProbe(j) \/ TaskReturn(j)
InQueue(q, i) == \E k \in 1..Len(q) : q[k] = i
SiblingsUntouched ==
    \A j \in Indexes :
        WorkerStep(j) =>
            /\ results' = results
            /\ \A i \in Indexes \ {j} :
                   /\ task'[i] = task[i]
                   /\ fstate'[i] = fstate[i]
                   /\ started'[i] = started[i]
                   /\ InQueue(work_queue', i) <=> InQueue(work_queue, i)
SiblingsComplete ==
    (prog = "dns" /\ AfterReturn) =>
        \A i \in Indexes :
            dns_servers[i].has_primary =>
                /\ fstate[i] = "RESULT"
                /\ \A k \in RecordsOf(dns_servers[i].name) : results[k] = TaskResult(i)
                /\ Cardinality(RecordsOf(dns_servers[i].name)) = 1
C8_FaultIsolation == []SiblingsComplete /\ [][SiblingsUntouched]_vars

C8_Witness ==
    /\ prog = "dns" /\ AfterReturn
    /\ \E i, j \in Indexes :
           /\ fstate[i] = "EXCEPTION"
           /\ fstate[j] = "RESULT" /\ task[j].success_count = 2
              /\ task[j].docker_success_count = 1

\* C9: at most max_workers endpoint tasks are in flight at any moment; a task
\* beyond the first max_workers is started only once enough earlier tasks have
\* finished; no work item is picked up twice; while a task is still to be
\* started the run can always go on, and at the return every task was started
\* exactly once.
InFlight == {i \in Indexes : started[i] > 0 /\ fstate[i] \notin Finished}
C9_BoundedConcurrency ==
    prog = "dns" =>
        /\ Cardinality(InFlight) <= max_workers
        /\ \A i \in Indexes :
               /\ started[i] <= 1
               /\ started[i] = 1 =>
                      Cardinality({j \in 1..(i - 1) : fstate[j] \in Finished})
                          >= i - max_workers
        /\ (\E i \in Indexes : started[i] = 0) => ENABLED Next
        /\ AfterReturn => \A i \in Indexes : started[i] = 1

C9_Witness ==
    /\ prog = "dns" /\ max_workers < Len(dns_servers)
    /\ Cardinality(InFlight) = max_workers
    /\ \E i \in Indexes :
           i > max_workers /\ started[i] = 1 /\ fstate[i] = "RUNNING"
           /\ task[i].pc = "docker"

\* C10: when test_all_dns_servers or test_all_registries has returned (and
\* whenever the ranking exists), no endpoint task is pending or running: every
\* future holds a result or an exception and every result is in the list; every
\* configured registry has its record, in configuration order.
C10_ReturnsAfterAllDone ==
    /\ (prog = "dns" /\ AfterReturn) =>
           /\ work_queue = <<>>
           /\ future_to_server = Indexes
           /\ \A i \in Indexes :
                  /\ fstate[i] \in Finished
                  /\ fstate[i] = "RESULT" => \E k \in 1..Len(results) : results[k] = TaskResult(i)
    /\ (prog = "mirror" /\ (pc_main = "returned" \/ AfterDisplay)) =>
           /\ Len(results) = Len(registry_mirrors)
           /\ \A i \in 1..Len(results) : results[i].mirror = registry_mirrors[i].mirror
           /\ reg = NoReg

C10_Witness ==
    \/ /\ prog = "dns" /\ pc_main = "ranked"
       /\ Len(dns_servers) = 2 /\ max_workers = 1 /\ Len(results) = 2
    \/ /\ prog = "mirror" /\ pc_main = "choose"
       /\ Len(registry_mirrors) = 2 /\ Len(working_results) = 1

\* C11: in every stats record, for the general and for the Docker battery: with
\* no successful probe the average is inf, the success rate is exactly 0 and
\* the eligibility flag is false; with at least one successful probe the
\* success rate is success count / attempted count * 100.
BatteryIsDefined(count, attempted, avg, rate, flag) ==
    /\ count = 0 => (avg = Inf /\ rate = Rat(0, 1) /\ ~flag)
    /\ count > 0 => (rate[2] # 0 /\ rate[1] * attempted = count * 100 * rate[2])
C11_ZeroSuccessBattery ==
    prog = "dns" =>
        \A k \in 1..Len(results) :
            /\ BatteryIsDefined(results[k].success_count, Len(test_domains),
                                results[k].avg_time, results[k].success_rate,
                                results[k].working)
            /\ BatteryIsDefined(results[k].docker_success_count, Len(docker_domains),
                                results[k].docker_avg_time, results[k].docker_success_rate,
                                results[k].docker_working)

C11_Witness ==
    /\ prog = "dns" /\ AfterReturn
    /\ \E k \in 1..Len(results) :
           /\ results[k].success_count = 0 /\ results[k].avg_time = Inf
           /\ results[k].docker_success_count = 1
           /\ results[k].docker_success_rate = <<100, 3>>
    /\ \E k \in 1..Len(results) :
           results[k].success_count = 3 /\ results[k].docker_success_count = 0

----------------------------------------------------------------------------
(* Claims checked under SpecRank *)

\* C6: in the ranked DNS list every Docker-eligible endpoint precedes every
\* Docker-ineligible one; among endpoints of the same eligibility one with a
\* strictly smaller Docker average is never after one with a larger; among
\* endpoints equal on both, one with a strictly smaller general average is
\* never after one with a larger.
SameFloat(x, y) == ~RatLess(x, y) /\ ~RatLess(y, x)
C6_DnsRankingOrder ==
    (prog = "dns" /\ pc_main = "ranked") =>
        \A a, b \in 1..Len(working_servers) :
            a < b =>
                LET x == working_servers[a]
                    y == working_servers[b]
                IN  /\ ~(y.docker_working /\ ~x.docker_working)
                    /\ x.docker_working = y.docker_working =>
                           ~RatLess(y.docker_avg_time, x.docker_avg_time)
                    /\ (x.docker_working = y.docker_working
                        /\ SameFloat(x.docker_avg_time, y.docker_avg_time)) =>
                           ~RatLess(y.avg_time, x.avg_time)

C6_Witness ==
    /\ prog = "dns" /\ pc_main = "ranked"
    /\ Len(working_servers) = 2
    /\ working_servers[1].name = "B"
    /\ working_servers[1].docker_working = working_servers[2].docker_working
    /\ RatLess(working_servers[1].docker_avg_time, working_servers[2].docker_avg_time)
    /\ RatLess(working_servers[2].avg_time, working_servers[1].avg_time)
    /\ IsFinite(working_servers[2].docker_avg_time)
    /\ working_servers[1].docker_avg_time[2] = 3

\* C16: whenever select_dns_interactive shows a server as "RECOMMENDED FOR
\* DOCKER" (the ranked list and docker_working_servers are both non-empty), that
\* server is the first entry of the ranked list.
RecommendationShown ==
    /\ prog = "dns" /\ pc_main = "ranked"
    /\ working_servers # <<>>
    /\ docker_working_servers # <<>>
C16_RecommendedIsFirstRanked ==
    RecommendationShown => docker_working_servers[1] = working_servers[1]

----------------------------------------------------------------------------
(* Claims checked under SpecMain *)

\* The last line read at the selection prompt, N the length of the menu.
MenuLength == IF prog = "dns" THEN Len(working_servers) ELSE Len(working_results)
AtSelectionPrompt == pc_main \in {"ranked", "choose"}
IsLine(c) == c \notin {"<none>", "EOFError", "KeyboardInterrupt"}
NotInMenu(c) ==
    /\ IsLine(c) /\ c # "q"
    /\ c \in IntLiterals => (int(c) < 1 \/ int(c) > MenuLength)
StillChoosing ==
    /\ AtSelectionPrompt
    /\ main.selected = 0 /\ main.exit_code = -1 /\ main.raised = ""
    /\ main.prompts = main.reprompts
    /\ apply.fn = ""
QuitReturnsNone ==
    main.choice = "q" =>
        /\ pc_main = "exit" /\ main.outcome = "cancelled"
        /\ main.selected = 0 /\ main.raised = "" /\ apply.fn = ""
        /\ main.prompts = main.reprompts + 1

\* C12 as stated: in both selectors a line that is no number, or a number
\* outside 1..N, never ends the selection loop and never selects: the prompt is
\* shown again; and a later "q" returns no selection without raising.
C12_InvalidInputNeverEndsLoop ==
    /\ NotInMenu(main.choice) => StillChoosing
    /\ QuitReturnsNone

\* C12 as amended: the same, except that in the registry selector the line "0"
\* is the skip token: it ends the loop at once with no selection.
C12_InvalidInputReprompts ==
    /\ (NotInMenu(main.choice) /\ ~(prog = "mirror" /\ main.choice = "0")) => StillChoosing
    /\ (prog = "mirror" /\ main.choice = "0") =>
           /\ pc_main = "exit" /\ main.outcome = "skipped"
           /\ main.selected = 0 /\ main.raised = "" /\ apply.fn = ""
    /\ QuitReturnsNone

C12_Witness ==
    /\ prog = "dns" /\ pc_main = "exit"
    /\ Len(working_servers) = 2
    /\ main.choice = "q" /\ main.reprompts = 1 /\ main.prompts = 2
    /\ main.outcome = "cancelled" /\ main.selected = 0

\* C13: an interrupt or an end of input at the selection prompt ends the
\* selection like "q" does: no selection, nothing applied, the same exit code,
\* and no exception leaves main.
EndsLikeQuit ==
    /\ pc_main = "exit"
    /\ main.selected = 0 /\ apply.fn = ""
    /\ main.exit_code = EXIT_FAILURE
    /\ main.raised = ""
C13_InterruptIsCancel ==
    main.choice \in {"q", "EOFError", "KeyboardInterrupt"} => EndsLikeQuit

\* C14: the exit code is 0 exactly when an endpoint was applied or the operator
\* declined, skipped or cancelled, and non-zero exactly when no endpoint is
\* eligible, the apply failed or a precondition check failed.
C14_ExitCodes ==
    pc_main = "exit" =>
        /\ main.exit_code = 0
               <=> main.outcome \in {"applied", "declined", "skipped", "cancelled"}
        /\ main.exit_code # 0
               <=> main.outcome \in {"no_eligible", "apply_failed", "precondition_failed"}

\* C15: the configuration file is overwritten at most once, only after the
\* operator selected and confirmed an endpoint, only after the existing file was
\* backed up, and success is reported only after a verification step.
C15_BackupWriteVerify ==
    apply.fn # "" =>
        /\ apply.writes <= 1
        /\ apply.writes > 0 => (main.selected > 0 /\ main.confirmed)
        /\ (apply.writes > 0 /\ etc_before # NoFile) => backup_file = etc_before
        /\ apply.ret = "True" => (apply.writes = 1 /\ apply.verified)

----------------------------------------------------------------------------
(* Claims checked under SpecApply *)

\* C3: whenever apply_dns_settings or _configure_docker_daemon has returned
\* False, /etc/resolv.conf, respectively daemon.json, is as it was when the
\* operation started.
C3_FailureLeavesConfigUntouched ==
    (apply.fn # "" /\ apply.ret = "False") => etc_file = etc_before

----------------------------------------------------------------------------
(* Claims checked under SpecProbe *)

\* C4: every probe returns to its caller, for every outcome of the underlying
\* call, exactly one of (True, finite non-negative elapsed) or (False, inf);
\* never (True, inf), never (False, finite), and never a raised exception.
C4_ProbeResultShape ==
    pc_main = "probed" =>
        /\ probe.out.raised = ""
        /\ \/ /\ probe.out.success
              /\ IsFinite(probe.out.time)
              /\ ~RatLess(probe.out.time, Rat(0, 1))
           \/ /\ ~probe.out.success
              /\ probe.out.time = Inf

====
